---- MODULE Spec2Model ----
(***************************************************************************)
(* State-machine model of CycleGANModel (models/cycle_gan_model.py): the   *)
(* construction of the model, set_input, and the statement-by-statement    *)
(* execution of optimize_parameters with its forward pass, generator and   *)
(* discriminator backward passes, optimizer steps and image-pool queries.  *)
(* Tensors are abstracted to tags (which batch / which iteration produced  *)
(* them); parameters to version counters; gradients to contribution        *)
(* counters.                                                               *)
(***************************************************************************)
EXTENDS Integers, Sequences, FiniteSets, TLC

\* ---------------------------------------------------------------- bounds
\* optimize_parameters calls explored
MaxIter == 2
\* distinct input batches fed to set_input
MaxBatch == 2
\* largest opt.pool_size explored
MaxPoolSize == 1

\* ------------------------------------------------------- program constants
\* --lambda_A and --lambda_B defaults
lambda_A == 10
lambda_B == 10

\* values explored for lambda_identity_t / lambda_identity_s
LambdaIdtValues == {0, 1}
\* values explored for opt.output_nc (opt.input_nc is 3)
ChannelValues == {1, 3}
\* abstract values of an L1 distance between two tensors
L1Values == {0, 1}

Nets == {"G_A", "G_B", "D_A", "D_B"}
Generators == {"G_A", "G_B"}
Discriminators == {"D_A", "D_B"}

\* self.loss_names
loss_names ==
  <<"D_A", "G_A", "cycle_A", "idt_A", "diff_A",
    "D_B", "G_B", "cycle_B", "idt_B", "diff_B">>

LossNameSet == {loss_names[i] : i \in 1..Len(loss_names)}

\* a tensor attribute that has never been assigned
None == [key |-> "None", batch |-> 0]

\* a generated tensor: the iteration that produced it, the generator whose
\* autograd graph it hangs from, and whether it is still attached to it
NoFake == [iter |-> 0, gen |-> "None", graph |-> FALSE]

VARIABLES
  opt,          \* the experiment flags (fixed at construction)
  pc,           \* "new" | "failed" | "ready" | "running" | "done" | "aborted"
  ip,           \* index of the next statement of optimize_parameters
  iter,         \* number of optimize_parameters calls started
  requires_grad,\* requires_grad flag of netD_A / netD_B parameters
  params,       \* version of each network's parameters
  grad,         \* gradient contributions accumulated on each network
  real,         \* real_A, real_B, real_diff_A, real_diff_B
  out,          \* fake_B, fake_A (tensors) and the stamp of rec_*/diff_*
  loss_at,      \* iteration that last assigned each named loss (0 = never)
  loss_idt,     \* values of loss_idt_A, loss_idt_B
  fake_A_pool,  \* ImagePool contents
  fake_B_pool,
  trace,        \* statements of the current call that have completed
  dcalls,       \* pool queries / discriminator losses of the current call
  prev,         \* params at the start of the current call
  updated,      \* optimizer updates applied to each network in this call
  gen_evals,    \* generator evaluations in this call: [fwd, idt]
  abort_at,     \* statement at which the current call raised ("" if none)
  idt_entered   \* the identity branch of backward_G was entered in this call

vars == <<opt, pc, ip, iter, requires_grad, params, grad, real, out, loss_at,
          loss_idt, fake_A_pool, fake_B_pool, trace, dcalls, prev, updated,
          gen_evals, abort_at, idt_entered>>

callHist == <<trace, dcalls, prev, updated, gen_evals, abort_at, idt_entered>>

\* --------------------------------------------------------------- helpers
Zero(S) == [n \in S |-> 0]

Options ==
  [lambda_identity_t : LambdaIdtValues,
   lambda_identity_s : LambdaIdtValues,
   input_nc : {3},
   output_nc : ChannelValues,
   isTrain : BOOLEAN,
   dataset_type : {"common_images", "remote_sensing_images"},
   phase : {"train", "test"},
   direction : {"AtoB", "BtoA"},
   pool_size : 0..MaxPoolSize]

Init ==
  /\ opt \in Options
  /\ pc = "new"
  /\ ip = 0
  /\ iter = 0
  /\ requires_grad = [n \in Discriminators |-> TRUE]
  /\ params = Zero(Nets)
  /\ grad = Zero(Nets)
  /\ real = [real_A |-> None, real_B |-> None,
             real_diff_A |-> None, real_diff_B |-> None]
  /\ out = [fake_B |-> NoFake, fake_A |-> NoFake, rec_A |-> 0, rec_B |-> 0,
            diff_A |-> 0, diff_B |-> 0]
  /\ loss_at = [l \in LossNameSet |-> 0]
  /\ loss_idt = [idt_A |-> 0, idt_B |-> 0]
  /\ fake_A_pool = <<>>
  /\ fake_B_pool = <<>>
  /\ trace = <<>>
  /\ dcalls = <<>>
  /\ prev = Zero(Nets)
  /\ updated = Zero(Nets)
  /\ gen_evals = [fwd |-> 0, idt |-> 0]
  /\ abort_at = ""
  /\ idt_entered = FALSE

\* ---------------------------------------------------------- construction
\* the assertion of __init__: True when construction goes through
init_assert(o) ==
  IF o.isTrain /\ o.lambda_identity_t > 0
    THEN o.input_nc = o.output_nc
    ELSE TRUE

CycleGANModel_init ==
  /\ pc = "new"
  /\ pc' = IF init_assert(opt) THEN "ready" ELSE "failed"
  /\ UNCHANGED <<opt, ip, iter, requires_grad, params, grad, real, out,
                 loss_at, loss_idt, fake_A_pool, fake_B_pool, callHist>>

\* ------------------------------------------------------------- set_input
Input(b) ==
  [A |-> [key |-> "A", batch |-> b], B |-> [key |-> "B", batch |-> b],
   A_ref |-> [key |-> "A_ref", batch |-> b],
   B_ref |-> [key |-> "B_ref", batch |-> b]]

\* variant: the reference tensors are read for every dataset type
set_input_result_any_dataset(r, input) ==
  LET AtoB == opt.direction = "AtoB"
      r1 == [r EXCEPT !.real_A = IF AtoB THEN input.A ELSE input.B,
                      !.real_B = IF AtoB THEN input.B ELSE input.A]
  IN IF opt.phase = "train"
       THEN [r1 EXCEPT
               !.real_diff_A = IF AtoB THEN input.A_ref ELSE input.B_ref,
               !.real_diff_B = IF AtoB THEN input.B_ref ELSE input.A_ref]
       ELSE r1

set_input_result(r, input) ==
  LET AtoB == opt.direction = "AtoB"
      r1 == IF opt.dataset_type = "common_images"
              THEN [r EXCEPT !.real_A = IF AtoB THEN input.A ELSE input.B,
                             !.real_B = IF AtoB THEN input.B ELSE input.A]
              ELSE r
      r2 == IF opt.dataset_type = "remote_sensing_images"
              THEN [r1 EXCEPT !.real_A = IF AtoB THEN input.A ELSE input.B,
                              !.real_B = IF AtoB THEN input.B ELSE input.A]
              ELSE r1
  IN IF opt.dataset_type = "remote_sensing_images" /\ opt.phase = "train"
       THEN [r2 EXCEPT
               !.real_diff_A = IF AtoB THEN input.A_ref ELSE input.B_ref,
               !.real_diff_B = IF AtoB THEN input.B_ref ELSE input.A_ref]
       ELSE r2

set_input ==
  /\ pc \in {"ready", "done", "aborted"}
  /\ \E b \in 1..MaxBatch : real' = set_input_result(real, Input(b))
  /\ UNCHANGED <<opt, pc, ip, iter, requires_grad, params, grad, out,
                 loss_at, loss_idt, fake_A_pool, fake_B_pool, callHist>>

\* ---------------------------------------------------- optimize_parameters
\* variant: the forward pass placed after the freeze and the zeroing
body_forward_third ==
  <<"set_requires_grad_False",
    "optimizer_G_zero_grad",
    "forward",
    "backward_G",
    "optimizer_G_step",
    "set_requires_grad_True",
    "optimizer_D_zero_grad",
    "backward_D_A",
    "backward_D_B",
    "optimizer_D_step">>

\* variant: both optimizer steps deferred to the end of the iteration
body_steps_last ==
  <<"forward",
    "set_requires_grad_False",
    "optimizer_G_zero_grad",
    "backward_G",
    "set_requires_grad_True",
    "optimizer_D_zero_grad",
    "backward_D_A",
    "backward_D_B",
    "optimizer_G_step",
    "optimizer_D_step">>

\* variant: the two discriminator backward passes exchanged
body_D_swapped ==
  <<"forward",
    "set_requires_grad_False",
    "optimizer_G_zero_grad",
    "backward_G",
    "optimizer_G_step",
    "set_requires_grad_True",
    "optimizer_D_zero_grad",
    "backward_D_B",
    "backward_D_A",
    "optimizer_D_step">>

\* the statements of optimize_parameters, in program order
optimize_parameters_body ==
  <<"forward",
    "set_requires_grad_False",
    "optimizer_G_zero_grad",
    "backward_G",
    "optimizer_G_step",
    "set_requires_grad_True",
    "optimizer_D_zero_grad",
    "backward_D_A",
    "backward_D_B",
    "optimizer_D_step">>

\* parameters handed to each optimizer, in chain order
optimizer_G_chain == <<"G_A", "G_B">>

\* variant: netD_B left out of the discriminator optimizer
optimizer_D_chain_only_A == <<"D_A">>

optimizer_D_chain == <<"D_A", "D_B">>

\* variant: only netD_A is frozen
frozen_nets_only_A == {"D_A"}

\* the networks whose flag is switched off before the generator update
frozen_nets == {"D_A", "D_B"}

\* the networks whose flag is switched back on before the discriminator update
unfrozen_nets == {"D_A", "D_B"}

Range(s) == {s[i] : i \in 1..Len(s)}

At(label) == pc = "running" /\ optimize_parameters_body[ip] = label

\* the statement at ip returned normally
Advance(label) ==
  /\ pc' = IF ip = Len(optimize_parameters_body) THEN "done" ELSE "running"
  /\ ip' = IF ip = Len(optimize_parameters_body) THEN 0 ELSE ip + 1
  /\ trace' = Append(trace, label)
  /\ abort_at' = abort_at

\* the statement at ip raised; the exception leaves optimize_parameters
Abort(label) ==
  /\ pc' = "aborted"
  /\ ip' = 0
  /\ trace' = trace
  /\ abort_at' = label

optimize_parameters ==
  /\ pc \in {"ready", "done", "aborted"}
  /\ iter < MaxIter
  /\ pc' = "running"
  /\ ip' = 1
  /\ iter' = iter + 1
  /\ trace' = <<>>
  /\ dcalls' = <<>>
  /\ prev' = params
  /\ updated' = Zero(Nets)
  /\ gen_evals' = [fwd |-> 0, idt |-> 0]
  /\ abort_at' = ""
  /\ idt_entered' = FALSE
  /\ UNCHANGED <<opt, requires_grad, params, grad, real, out, loss_at,
                 loss_idt, fake_A_pool, fake_B_pool>>

\* forward(): four generator evaluations; reads real_A and real_B
forward ==
  /\ At("forward")
  /\ IF real.real_A = None \/ real.real_B = None
       THEN /\ Abort("forward")
            /\ UNCHANGED <<out, gen_evals>>
       ELSE /\ out' = [fake_B |-> [iter |-> iter, gen |-> "G_A", graph |-> TRUE],
                       diff_A |-> iter,
                       rec_A |-> iter,
                       fake_A |-> [iter |-> iter, gen |-> "G_B", graph |-> TRUE],
                       diff_B |-> iter,
                       rec_B |-> iter]
            /\ gen_evals' = [gen_evals EXCEPT !.fwd = @ + 4]
            /\ Advance("forward")
  /\ UNCHANGED <<opt, iter, requires_grad, params, grad, real, loss_at,
                 loss_idt, fake_A_pool, fake_B_pool, dcalls, prev, updated,
                 idt_entered>>

\* BaseModel.set_requires_grad(nets, flag)
set_requires_grad(nets, flag) ==
  [n \in Discriminators |-> IF n \in nets THEN flag ELSE requires_grad[n]]

\* self.set_requires_grad([self.netD_A, self.netD_B], False);
\* netD_A / netD_B exist only when isTrain
set_requires_grad_False ==
  /\ At("set_requires_grad_False")
  /\ IF opt.isTrain
       THEN /\ requires_grad' = set_requires_grad(frozen_nets, FALSE)
            /\ Advance("set_requires_grad_False")
       ELSE /\ Abort("set_requires_grad_False")
            /\ UNCHANGED requires_grad
  /\ UNCHANGED <<opt, iter, params, grad, real, out, loss_at, loss_idt,
                 fake_A_pool, fake_B_pool, dcalls, prev, updated, gen_evals,
                 idt_entered>>

optimizer_G_zero_grad ==
  /\ At("optimizer_G_zero_grad")
  /\ grad' = [n \in Nets |-> IF n \in Range(optimizer_G_chain) THEN 0 ELSE grad[n]]
  /\ Advance("optimizer_G_zero_grad")
  /\ UNCHANGED <<opt, iter, requires_grad, params, real, out, loss_at,
                 loss_idt, fake_A_pool, fake_B_pool, dcalls, prev, updated,
                 gen_evals, idt_entered>>

\* variant: the source-domain weight is ignored by the branch condition
identity_enabled_t_only(o) == o.lambda_identity_t > 0

\* the condition guarding the identity branch of backward_G
identity_enabled(o) == o.lambda_identity_t > 0 \/ o.lambda_identity_s > 0

\* loss_G.backward(): the generators always receive gradient; a discriminator
\* receives gradient only while its parameters require it
loss_G_backward(g) ==
  [n \in Nets |->
     IF n \in Generators THEN g[n] + 1
     ELSE IF requires_grad[n] THEN g[n] + 1 ELSE g[n]]

backward_G ==
  /\ At("backward_G")
  /\ \E d \in L1Values :
       LET lambda_idt_t == opt.lambda_identity_t
           lambda_idt_s == opt.lambda_identity_s
           idt == identity_enabled(opt)
           \* netG_A(real_B) / netG_B(real_A) need equal channel counts
           shape_error == idt /\ opt.input_nc # opt.output_nc
           new_idt == IF idt
                        THEN [idt_A |-> d * lambda_B * lambda_idt_t
                                        + d * lambda_A * lambda_idt_s,
                              idt_B |-> d * lambda_A * lambda_idt_t
                                        + d * lambda_B * lambda_idt_s]
                        ELSE [idt_A |-> 0, idt_B |-> 0]
           idt_stamped == [loss_at EXCEPT !["idt_A"] = iter, !["idt_B"] = iter]
       IN
       /\ idt_entered' = idt
       /\ IF shape_error
            THEN /\ Abort("backward_G")
                 /\ UNCHANGED <<loss_idt, loss_at, gen_evals, grad>>
            ELSE /\ loss_idt' = new_idt
                 /\ gen_evals' = IF idt THEN [gen_evals EXCEPT !.idt = @ + 4]
                                        ELSE gen_evals
                 /\ IF real.real_diff_A = None \/ real.real_diff_B = None
                      THEN /\ Abort("backward_G")
                           /\ loss_at' = idt_stamped
                           /\ UNCHANGED grad
                      ELSE /\ loss_at' =
                                [l \in LossNameSet |->
                                   IF l \in {"G_A", "G_B", "cycle_A", "cycle_B",
                                             "diff_A", "diff_B", "idt_A", "idt_B"}
                                     THEN iter ELSE loss_at[l]]
                           /\ grad' = loss_G_backward(grad)
                           /\ Advance("backward_G")
  /\ UNCHANGED <<opt, iter, requires_grad, params, real, out, fake_A_pool,
                 fake_B_pool, dcalls, prev, updated>>

\* optimizer.step() over the networks of a chain
optimizer_step(chain, f) ==
  [n \in Nets |-> IF n \in Range(chain) THEN f[n] + 1 ELSE f[n]]

optimizer_G_step ==
  /\ At("optimizer_G_step")
  /\ params' = optimizer_step(optimizer_G_chain, params)
  /\ updated' = optimizer_step(optimizer_G_chain, updated)
  /\ Advance("optimizer_G_step")
  /\ UNCHANGED <<opt, iter, requires_grad, grad, real, out, loss_at, loss_idt,
                 fake_A_pool, fake_B_pool, dcalls, prev, gen_evals,
                 idt_entered>>

set_requires_grad_True ==
  /\ At("set_requires_grad_True")
  /\ requires_grad' = set_requires_grad(unfrozen_nets, TRUE)
  /\ Advance("set_requires_grad_True")
  /\ UNCHANGED <<opt, iter, params, grad, real, out, loss_at, loss_idt,
                 fake_A_pool, fake_B_pool, dcalls, prev, updated, gen_evals,
                 idt_entered>>

optimizer_D_zero_grad ==
  /\ At("optimizer_D_zero_grad")
  /\ grad' = [n \in Nets |-> IF n \in Range(optimizer_D_chain) THEN 0 ELSE grad[n]]
  /\ Advance("optimizer_D_zero_grad")
  /\ UNCHANGED <<opt, iter, requires_grad, params, real, out, loss_at,
                 loss_idt, fake_A_pool, fake_B_pool, dcalls, prev, updated,
                 gen_evals, idt_entered>>

\* ImagePool.query(image): the possible (returned image, new pool) pairs
ImagePool_query(pool, image) ==
  IF opt.pool_size = 0
    THEN {[ret |-> image, pool |-> pool]}
    ELSE IF Len(pool) < opt.pool_size
      THEN {[ret |-> image, pool |-> Append(pool, image)]}
      ELSE {[ret |-> image, pool |-> pool]}
           \cup {[ret |-> pool[i], pool |-> [pool EXCEPT ![i] = image]] :
                   i \in 1..Len(pool)}

detach(t) == [t EXCEPT !.graph = FALSE]

\* variant: the fake is fed to the discriminator without detach()
backward_D_basic_no_detach(netD, real_t, fake) ==
  [n \in Nets |->
     grad[n]
     + (IF n = netD /\ requires_grad[netD] THEN 1 ELSE 0)
     + (IF fake.graph /\ n = fake.gen THEN 1 ELSE 0)]

\* backward_D_basic(netD, real, fake): the gradient left by loss_D.backward()
backward_D_basic(netD, real_t, fake) ==
  LET seen == detach(fake)
  IN [n \in Nets |->
        grad[n]
        + (IF n = netD /\ requires_grad[netD] THEN 1 ELSE 0)
        + (IF seen.graph /\ n = seen.gen THEN 1 ELSE 0)]

\* variant: backward_D_A uses self.fake_B directly and skips the pool
backward_D_A_no_query ==
  /\ At("backward_D_A")
  /\ grad' = backward_D_basic("D_A", real.real_B, out.fake_B)
  /\ loss_at' = [loss_at EXCEPT !["D_A"] = iter]
  /\ Advance("backward_D_A")
  /\ UNCHANGED <<opt, iter, requires_grad, params, real, out, loss_idt,
                 fake_A_pool, fake_B_pool, dcalls, prev, updated, gen_evals,
                 idt_entered>>

backward_D_A ==
  /\ At("backward_D_A")
  /\ \E q \in ImagePool_query(fake_B_pool, out.fake_B) :
       /\ fake_B_pool' = q.pool
       /\ grad' = backward_D_basic("D_A", real.real_B, q.ret)
       /\ dcalls' = Append(dcalls, [pool |-> "fake_B_pool", queried |-> out.fake_B,
                                    netD |-> "D_A", real |-> real.real_B,
                                    fake |-> q.ret, loss |-> "D_A"])
  /\ loss_at' = [loss_at EXCEPT !["D_A"] = iter]
  /\ Advance("backward_D_A")
  /\ UNCHANGED <<opt, iter, requires_grad, params, real, out, loss_idt,
                 fake_A_pool, prev, updated, gen_evals, idt_entered>>

backward_D_B ==
  /\ At("backward_D_B")
  /\ \E q \in ImagePool_query(fake_A_pool, out.fake_A) :
       /\ fake_A_pool' = q.pool
       /\ grad' = backward_D_basic("D_B", real.real_A, q.ret)
       /\ dcalls' = Append(dcalls, [pool |-> "fake_A_pool", queried |-> out.fake_A,
                                    netD |-> "D_B", real |-> real.real_A,
                                    fake |-> q.ret, loss |-> "D_B"])
  /\ loss_at' = [loss_at EXCEPT !["D_B"] = iter]
  /\ Advance("backward_D_B")
  /\ UNCHANGED <<opt, iter, requires_grad, params, real, out, loss_idt,
                 fake_B_pool, prev, updated, gen_evals, idt_entered>>

optimizer_D_step ==
  /\ At("optimizer_D_step")
  /\ params' = optimizer_step(optimizer_D_chain, params)
  /\ updated' = optimizer_step(optimizer_D_chain, updated)
  /\ Advance("optimizer_D_step")
  /\ UNCHANGED <<opt, iter, requires_grad, grad, real, out, loss_at, loss_idt,
                 fake_A_pool, fake_B_pool, dcalls, prev, gen_evals,
                 idt_entered>>

\* the statements in which an exception (out of memory, interrupt, ...) can
\* leave optimize_parameters; nothing in the method catches it
RaisePoints ==
  {"forward", "backward_G", "optimizer_G_step",
   "backward_D_A", "backward_D_B", "optimizer_D_step"}

\* the networks an interrupted optimizer step may already have updated
PartialUpdates(label) ==
  IF label = "optimizer_G_step"
    THEN {SubSeq(optimizer_G_chain, 1, k) : k \in 0..(Len(optimizer_G_chain) - 1)}
    ELSE IF label = "optimizer_D_step"
      THEN {SubSeq(optimizer_D_chain, 1, k) : k \in 0..(Len(optimizer_D_chain) - 1)}
      ELSE {<<>>}

Raise ==
  /\ pc = "running"
  /\ optimize_parameters_body[ip] \in RaisePoints
  /\ opt.isTrain
  /\ \E done \in PartialUpdates(optimize_parameters_body[ip]) :
       /\ params' = optimizer_step(done, params)
       /\ updated' = optimizer_step(done, updated)
  /\ Abort(optimize_parameters_body[ip])
  /\ UNCHANGED <<opt, iter, requires_grad, grad, real, out, loss_at, loss_idt,
                 fake_A_pool, fake_B_pool, dcalls, prev, gen_evals,
                 idt_entered>>

Next ==
  \/ CycleGANModel_init
  \/ set_input
  \/ optimize_parameters
  \/ forward
  \/ set_requires_grad_False
  \/ optimizer_G_zero_grad
  \/ backward_G
  \/ optimizer_G_step
  \/ set_requires_grad_True
  \/ optimizer_D_zero_grad
  \/ backward_D_A
  \/ backward_D_B
  \/ optimizer_D_step
  \/ Raise

Spec == Init /\ [][Next]_vars

\* ------------------------------------------------------------ properties
Completed(label) == label \in Range(trace)

IndexOf(label) == CHOOSE i \in 1..Len(trace) : trace[i] = label

Count(label) == Cardinality({i \in 1..Len(trace) : trace[i] = label})

PhaseG_code ==
  <<"forward", "set_requires_grad_False", "optimizer_G_zero_grad",
    "backward_G", "optimizer_G_step">>

PhaseG_spec ==
  <<"set_requires_grad_False", "optimizer_G_zero_grad", "forward",
    "backward_G", "optimizer_G_step">>

PhaseD_code ==
  <<"set_requires_grad_True", "optimizer_D_zero_grad", "backward_D_A",
    "backward_D_B", "optimizer_D_step">>

\* C1 (as stated): the statements completed in the generator phase of a call
\* follow the order freeze, zero generator gradients, forward, backward_G,
\* generator step; the forward pass never completes before the freeze.
C1_SpecOrder ==
  \A i \in 1..Len(trace) : i <= Len(PhaseG_spec) => trace[i] = PhaseG_spec[i]

\* C1 (amended): the statements completed in the generator phase of a call
\* follow the order forward, freeze both discriminators, zero the generator
\* optimizer's gradients, backward_G, generator optimizer step; the forward
\* pass is the first statement and runs before the freeze.
C1_GeneratorPhaseOrder ==
  /\ \A i \in 1..Len(trace) : i <= Len(PhaseG_code) => trace[i] = PhaseG_code[i]
  /\ Completed("set_requires_grad_False") => Completed("forward")

C1_Witness ==
  /\ pc = "running"
  /\ Len(trace) = 5
  /\ trace[1] = "forward"
  /\ trace[5] = "optimizer_G_step"

\* C2 (as stated): when an exception aborts optimize_parameters, either all
\* four parameter groups have been updated or no optimizer step has been taken
\* and all parameters equal their values before the call.
C2_Atomic ==
  (pc = "aborted" /\ opt.isTrain) =>
     \/ \A n \in Nets : updated[n] >= 1
     \/ /\ \A n \in Nets : updated[n] = 0
        /\ params = prev

\* C2 (amended): an exception in forward or backward_G leaves all four
\* parameter groups at their values before the call; an exception in
\* optimizer_G.step leaves both discriminators unchanged; an exception in
\* backward_D_A or backward_D_B leaves G_A and G_B updated exactly once and
\* D_A and D_B unchanged; an exception in optimizer_D.step leaves G_A and G_B
\* updated exactly once and at least one discriminator not updated.
C2_AbortOutcome ==
  pc = "aborted" =>
    /\ abort_at \in {"forward", "set_requires_grad_False", "backward_G"}
         => params = prev /\ updated = Zero(Nets)
    /\ abort_at = "optimizer_G_step"
         => \A d \in Discriminators : params[d] = prev[d] /\ updated[d] = 0
    /\ abort_at \in {"backward_D_A", "backward_D_B"}
         => /\ \A g \in Generators : params[g] = prev[g] + 1 /\ updated[g] = 1
            /\ \A d \in Discriminators : params[d] = prev[d] /\ updated[d] = 0
    /\ abort_at = "optimizer_D_step"
         => /\ \A g \in Generators : params[g] = prev[g] + 1 /\ updated[g] = 1
            /\ \E d \in Discriminators : params[d] = prev[d] /\ updated[d] = 0

C2_Witness ==
  /\ pc = "aborted"
  /\ abort_at = "backward_D_A"
  /\ params["G_A"] = prev["G_A"] + 1
  /\ params["G_B"] = prev["G_B"] + 1
  /\ params["D_A"] = prev["D_A"]
  /\ params["D_B"] = prev["D_B"]

C4_OrderAfter ==
  /\ \A i \in 1..Len(trace) :
       i > Len(PhaseG_code) => trace[i] = PhaseD_code[i - Len(PhaseG_code)]
  /\ (Completed("backward_D_A") \/ Completed("backward_D_B") \/ dcalls # <<>>)
       => /\ Completed("forward")
          /\ Completed("backward_G")
          /\ Completed("optimizer_G_step")
          /\ IndexOf("optimizer_G_step") < Len(trace)
  /\ Completed("backward_D_B") => Completed("backward_D_A")

C4_DiscriminatorPhaseOrder ==
  [][ /\ C4_OrderAfter'
      /\ (pc = "running" /\ ~Completed("optimizer_G_step"))
           => \A d \in Discriminators : grad'[d] = grad[d] ]_vars

C4_Witness ==
  /\ pc = "done"
  /\ Len(trace) = 10
  /\ trace[8] = "backward_D_A"
  /\ grad["D_A"] = 1
  /\ grad["D_B"] = 1

\* C5: both discriminators always carry the same requires_grad value; it is
\* disabled whenever backward_G or the generator optimizer step is about to
\* run, enabled whenever backward_D_A, backward_D_B or the discriminator
\* optimizer step is about to run, and enabled after every completed call.
C5_GradFlagPhases ==
  /\ requires_grad["D_A"] = requires_grad["D_B"]
  /\ (At("backward_G") \/ At("optimizer_G_step"))
       => ~requires_grad["D_A"] /\ ~requires_grad["D_B"]
  /\ (At("backward_D_A") \/ At("backward_D_B") \/ At("optimizer_D_step"))
       => requires_grad["D_A"] /\ requires_grad["D_B"]
  /\ pc = "done" => requires_grad["D_A"] /\ requires_grad["D_B"]

C5_Witness ==
  /\ At("optimizer_G_step")
  /\ ~requires_grad["D_A"]
  /\ ~requires_grad["D_B"]
  /\ iter >= 2

\* C6: a completed call has updated each of G_A, G_B, D_A, D_B exactly once,
\* each optimizer step having run exactly once with the generator step first,
\* and every one of the ten named losses was assigned by this same call.
C6_CompleteIteration ==
  pc = "done" =>
    /\ \A n \in Nets : updated[n] = 1 /\ params[n] = prev[n] + 1
    /\ Count("optimizer_G_step") = 1
    /\ Count("optimizer_D_step") = 1
    /\ IndexOf("optimizer_G_step") < IndexOf("optimizer_D_step")
    /\ \A i \in 1..Len(loss_names) : loss_at[loss_names[i]] = iter

C6_Witness ==
  /\ pc = "done"
  /\ iter = 2
  /\ \A n \in Nets : updated[n] = 1
  /\ \A l \in LossNameSet : loss_at[l] = 2

\* C7: back-propagating the D_A and D_B losses adds no gradient to G_A or
\* G_B, the discriminator optimizer step changes no generator parameter, and
\* the generator optimizer step changes no discriminator parameter.
C7_Isolation ==
  [][ /\ (At("backward_D_A") \/ At("backward_D_B"))
           => \A g \in Generators : grad'[g] = grad[g]
      /\ At("optimizer_D_step")
           => \A g \in Generators : params'[g] = params[g]
      /\ At("optimizer_G_step")
           => \A d \in Discriminators : params'[d] = params[d] ]_vars

C7_Witness ==
  /\ pc = "done"
  /\ Len(dcalls) = 2
  /\ dcalls[1].fake.graph
  /\ grad["G_A"] = 1
  /\ grad["G_B"] = 1
  /\ grad["D_A"] = 1

\* C8: with lambda_identity_t = 0 and lambda_identity_s = 0, backward_G sets
\* loss_idt_A and loss_idt_B to zero and evaluates no generator, so a
\* completed iteration has evaluated the generators exactly four times, all
\* in forward; when either weight is positive, backward_G makes exactly four
\* further generator evaluations.
C8_IdentityLaziness ==
  (pc \in {"running", "done"} /\ Completed("backward_G")) =>
    /\ gen_evals.fwd = 4
    /\ (opt.lambda_identity_t = 0 /\ opt.lambda_identity_s = 0)
         => /\ loss_idt.idt_A = 0
            /\ loss_idt.idt_B = 0
            /\ gen_evals.idt = 0
            /\ ~idt_entered
            /\ loss_at["idt_A"] = iter
            /\ loss_at["idt_B"] = iter
    /\ (opt.lambda_identity_t > 0 \/ opt.lambda_identity_s > 0)
         => gen_evals.idt = 4 /\ idt_entered

C8_Witness ==
  /\ pc = "done"
  /\ opt.lambda_identity_t = 0
  /\ opt.lambda_identity_s = 0
  /\ gen_evals = [fwd |-> 4, idt |-> 0]
  /\ loss_idt = [idt_A |-> 0, idt_B |-> 0]

\* C9: a completed iteration has queried fake_B_pool exactly once, with this
\* iteration's fake_B, feeding the returned image to D_A against real_B, and
\* fake_A_pool exactly once, with this iteration's fake_A, feeding the
\* returned image to D_B against real_A; neither pool is queried or changed
\* before the generator optimizer step has completed.
C9_Done ==
  (pc = "done" /\ Completed("optimizer_D_step")) =>
    /\ Len(dcalls) = 2
    /\ dcalls[1].pool = "fake_B_pool"
    /\ dcalls[1].queried = [iter |-> iter, gen |-> "G_A", graph |-> TRUE]
    /\ dcalls[1].netD = "D_A"
    /\ dcalls[1].loss = "D_A"
    /\ dcalls[1].real = real.real_B
    /\ dcalls[1].fake.gen = "G_A"
    /\ dcalls[2].pool = "fake_A_pool"
    /\ dcalls[2].queried = [iter |-> iter, gen |-> "G_B", graph |-> TRUE]
    /\ dcalls[2].netD = "D_B"
    /\ dcalls[2].loss = "D_B"
    /\ dcalls[2].real = real.real_A
    /\ dcalls[2].fake.gen = "G_B"

C9_PoolQueries ==
  [][ /\ pc = "running" => C9_Done'
      /\ (pc = "running" /\ ~Completed("optimizer_G_step"))
           => /\ fake_A_pool' = fake_A_pool
              /\ fake_B_pool' = fake_B_pool
              /\ dcalls' = <<>>
      /\ At("backward_D_A") /\ pc' # "aborted"
           => /\ fake_A_pool' = fake_A_pool
              /\ Len(dcalls') = 1
      /\ At("backward_D_B") /\ pc' # "aborted"
           => /\ fake_B_pool' = fake_B_pool
              /\ Len(dcalls') = 2 ]_vars

C9_Witness ==
  /\ pc = "done"
  /\ Len(dcalls) = 2
  /\ dcalls[1].fake.iter < iter
  /\ dcalls[2].fake.iter = iter
  /\ Len(fake_B_pool) >= 1

\* C10: the reference tensors real_diff_A / real_diff_B are set only under
\* dataset_type 'remote_sensing_images' with phase 'train'; a training
\* iteration under 'common_images' never completes backward_G, changes no
\* parameter of any network, and when it aborts inside backward_G both
\* discriminators are left with gradient tracking disabled.
C10_MissingReference ==
  /\ (real.real_diff_A # None \/ real.real_diff_B # None)
       => opt.dataset_type = "remote_sensing_images" /\ opt.phase = "train"
  /\ (opt.isTrain /\ opt.dataset_type = "common_images") =>
       /\ ~Completed("backward_G")
       /\ ~Completed("optimizer_G_step")
       /\ pc # "done"
       /\ params = Zero(Nets)
       /\ (pc = "aborted" /\ real.real_A # None)
            => abort_at \in {"forward", "backward_G"}
       /\ (pc = "aborted" /\ abort_at = "backward_G")
            => /\ ~requires_grad["D_A"]
               /\ ~requires_grad["D_B"]
               /\ params = prev
               /\ updated = Zero(Nets)

C10_Witness ==
  /\ pc = "aborted"
  /\ abort_at = "backward_G"
  /\ opt.isTrain
  /\ opt.dataset_type = "common_images"
  /\ opt.input_nc = opt.output_nc
  /\ real.real_A # None
  /\ real.real_diff_A = None
  /\ trace = <<"forward", "set_requires_grad_False", "optimizer_G_zero_grad">>
  /\ ~requires_grad["D_A"]
====
